---- MODULE Spec2Model ----
(***************************************************************************)
(* Damage-resolution pipeline of module/pipelines/damage-pipeline.mjs:     *)
(* DamageRequest.validate, resolveAffinity, overrideResult,                *)
(* collectIncrements, collectMultipliers, calculateResult and the async    *)
(* function process, with the asynchronous operations it issues.           *)
(*                                                                         *)
(* JavaScript values are records [k, n, e]: k = "num" is the dyadic        *)
(* rational n / 2^e (kept normalised), k = "undefined" and k = "NaN" are   *)
(* the two non-numbers the code can meet.                                  *)
(***************************************************************************)
EXTENDS Integers, Sequences, FiniteSets, TLC

VARIABLES
    request,    \* the DamageRequest handed to process (lines 25-33)
    actors,     \* per actor: system.affinities, system.bonuses, scale flag (106, 173, 189)
    listeners,  \* the context hooks that have a listener registered (197, 218)
    hp,         \* per actor: resources.hp, the pool modifyTokenAttribute changes (255)
    pc,         \* where process stands: a stage, an await, or settled (226-276)
    idx,        \* 1-based position of the for-of loop in request.targets (236)
    contexts,   \* the context built for each target so far, last = current (238)
    updates,    \* the promises pushed to `updates`, with their state (235, 255, 261)
    log,        \* history: the stages run and hooks called, in order
    error,      \* what process rejected with, "none" while it has not
    hookData,   \* the legacy hook data objects, as their listeners left them (232, 250)
    other,      \* a second invocation of process, suspended while this one runs
    disabled,   \* the `disabled` flag of onRenderChatMessage (288)
    handler,    \* the click handler that holds the flag: where it stands, its event
                \* and the targets it resolved (312-355)
    clicks      \* history: the number of clicks on the controls of the message

vars == <<request, actors, listeners, hp, pc, idx, contexts, updates, log, error,
          hookData, other, disabled, handler, clicks>>

\* what no step of process touches
outside == <<other, disabled, handler, clicks>>

---------------------------------------------------------------------------
(* Bounds of the model *)

\* longest target list a request carries
MaxTargets == 2

\* clicks on the damage controls of one rendered message
MaxClicks == 2

---------------------------------------------------------------------------
(* JavaScript numbers *)

Undef == [k |-> "undefined", n |-> 0, e |-> 0]
NaN == [k |-> "NaN", n |-> 0, e |-> 0]

RECURSIVE Norm(_, _)
Norm(n, e) == IF e > 0 /\ n % 2 = 0 THEN Norm(n \div 2, e - 1)
              ELSE [k |-> "num", n |-> n, e |-> e]

RECURSIVE Pow2(_)
Pow2(e) == IF e = 0 THEN 1 ELSE 2 * Pow2(e - 1)

Num(n) == [k |-> "num", n |-> n, e |-> 0]
Half == [k |-> "num", n |-> 1, e |-> 1]

IsNum(v) == v.k = "num"

\* a + b of JavaScript: a non-number operand (undefined, NaN) gives NaN
Add(a, b) ==
    IF ~IsNum(a) \/ ~IsNum(b) THEN NaN
    ELSE LET e == IF a.e > b.e THEN a.e ELSE b.e
         IN Norm(a.n * Pow2(e - a.e) + b.n * Pow2(e - b.e), e)

\* a * b of JavaScript
Mul(a, b) ==
    IF ~IsNum(a) \/ ~IsNum(b) THEN NaN
    ELSE Norm(a.n * b.n, a.e + b.e)

\* unary minus
Neg(a) == IF ~IsNum(a) THEN NaN ELSE [a EXCEPT !.n = 0 - a.n]

\* Math.abs
Abs(a) == IF ~IsNum(a) THEN NaN ELSE [a EXCEPT !.n = IF a.n < 0 THEN 0 - a.n ELSE a.n]

\* truthiness of a value in an if (...): 0, NaN and undefined are falsy
Truthy(v) == IsNum(v) /\ v.n # 0

\* v ?? d
Coalesce(v, d) == IF v.k = "undefined" THEN d ELSE v

Positive(v) == IsNum(v) /\ v.n > 0
Negative(v) == IsNum(v) /\ v.n < 0

---------------------------------------------------------------------------
(* Configuration tables *)

\* FU.affValue (helpers/config.mjs): the index of each affinity tier
affValue == [vulnerability |-> Num(-1), none |-> Num(0), resistance |-> Num(1),
             immunity |-> Num(2), absorption |-> Num(3)]

Tiers == {affValue.vulnerability, affValue.none, affValue.resistance,
          affValue.immunity, affValue.absorption}

Traits == [IgnoreResistance |-> "ignore-resistance", IgnoreImmunity |-> "ignore-immunity"]

IgnoreFlags == {"ignoreVulnerable", "ignoreResistance", "ignoreImmunities", "ignoreAbsorption"}

\* affinityDamageModifier[affinity]: a key the table lacks reads as undefined
affinityDamageModifier(affinity) ==
    IF affinity = affValue.vulnerability THEN Num(2)
    ELSE IF affinity = affValue.none THEN Num(1)
    ELSE IF affinity = affValue.resistance THEN Half
    ELSE IF affinity = affValue.immunity THEN Num(0)
    ELSE IF affinity = affValue.absorption THEN Num(-1)
    ELSE Undef

\* the hooks of FUHooks whose listeners receive the mutable context
ContextHooks == {"DAMAGE_PIPELINE_COLLECT", "DAMAGE_PIPELINE_CALCULATE"}

---------------------------------------------------------------------------
(* Maps (insertion-ordered) as sequences of [key, value] entries *)

EmptyMap == <<>>

MapHas(m, key) == \E i \in 1..Len(m) : m[i].key = key

MapGet(m, key) == m[CHOOSE i \in 1..Len(m) : m[i].key = key].value

\* Map.prototype.set: an existing key keeps its position, a new key is appended
MapSet(m, key, value) ==
    IF MapHas(m, key)
    THEN [i \in 1..Len(m) |-> IF m[i].key = key THEN [key |-> key, value |-> value] ELSE m[i]]
    ELSE Append(m, [key |-> key, value |-> value])

---------------------------------------------------------------------------
(* DamageRequest *)

\* get allTargets(): this.extraDamageInfo.targets || this.targets
\* (a target list is [shape, list]; shape "absent" is undefined, "other" is a
\*  value that is no array, "list" is an array, empty or not)
allTargets(req) == IF req.extraTargets.shape # "absent" THEN req.extraTargets ELSE req.targets

\* validate() without the Array.isArray test
validateAllTargetsOnly(req) == allTargets(req).shape # "absent"

\* validate(): truthy only when allTargets is present and targets is an array
validate(req) ==
    IF allTargets(req).shape = "absent" THEN FALSE
    ELSE IF req.targets.shape # "list" THEN FALSE
    ELSE TRUE

---------------------------------------------------------------------------
(* DamagePipelineContext *)

\* a context whose bonus and modifier maps are those of the context built
\* before it
DamagePipelineContextShared(req, actor) ==
    [actor |-> actor,
     sourceActor |-> req.sourceActor,
     overrides |-> req.overrides,
     extraDamageInfo |-> req.extraDamageInfo,
     traits |-> req.traits,
     amount |-> req.amount,
     damageType |-> req.damageType,
     bonuses |-> IF contexts = <<>> THEN EmptyMap ELSE contexts[Len(contexts)].bonuses,
     modifiers |-> IF contexts = <<>> THEN EmptyMap ELSE contexts[Len(contexts)].modifiers,
     affinity |-> Undef,
     affinityMessage |-> "",
     result |-> Undef,
     lookup |-> Undef,
     folded |-> Undef,
     calcWrote |-> FALSE]

\* new DamagePipelineContext(request, actor): the request's fields are visible
\* on the context, bonuses and modifiers start as empty maps.  lookup, folded
\* and calcWrote record the local `affinity` of resolveAffinity before the
\* ignore rules, the value calculateResult assigned, and whether a listener
\* of the calculate hook wrote the result afterwards.
DamagePipelineContext(req, actor) ==
    [actor |-> actor,
     sourceActor |-> req.sourceActor,
     overrides |-> req.overrides,
     extraDamageInfo |-> req.extraDamageInfo,
     traits |-> req.traits,
     amount |-> req.amount,
     damageType |-> req.damageType,
     bonuses |-> EmptyMap,
     modifiers |-> EmptyMap,
     affinity |-> Undef,
     affinityMessage |-> "",
     result |-> Undef,
     lookup |-> Undef,
     folded |-> Undef,
     calcWrote |-> FALSE]

---------------------------------------------------------------------------
(* Pipeline stages *)

\* lines 100-108: the tier the ignore rules start from
startingAffinity(context) ==
    IF Truthy(context.overrides.affinity) THEN context.overrides.affinity
    ELSE IF context.damageType \in DOMAIN actors[context.actor].affinities
         THEN actors[context.actor].affinities[context.damageType]
         ELSE affValue.none

\* lines 111-116
vulnerabilityRule(s, context) ==
    IF s.affinity = affValue.vulnerability
    THEN [affinity |-> IF "ignoreVulnerable" \in context.extraDamageInfo THEN affValue.none
                       ELSE s.affinity,
          affinityMessage |-> "FU.ChatApplyDamageVulnerable"]
    ELSE s

\* lines 117-124
resistanceRule(s, context) ==
    IF s.affinity = affValue.resistance
    THEN IF \/ "ignoreResistance" \in context.extraDamageInfo
            \/ Traits.IgnoreResistance \in context.traits
         THEN [affinity |-> affValue.none,
               affinityMessage |-> "FU.ChatApplyDamageResistantIgnored"]
         ELSE [s EXCEPT !.affinityMessage = "FU.ChatApplyDamageResistant"]
    ELSE s

\* the immunity rule reading the resistance flag and trait
immunityRuleResistanceFlag(s, context) ==
    IF s.affinity = affValue.immunity
    THEN IF \/ "ignoreResistance" \in context.extraDamageInfo
            \/ Traits.IgnoreResistance \in context.traits
         THEN [affinity |-> affValue.none,
               affinityMessage |-> "FU.ChatApplyDamageImmuneIgnored"]
         ELSE [s EXCEPT !.affinityMessage = "FU.ChatApplyDamageImmune"]
    ELSE s

\* lines 125-132
immunityRule(s, context) ==
    IF s.affinity = affValue.immunity
    THEN IF \/ "ignoreImmunities" \in context.extraDamageInfo
            \/ Traits.IgnoreImmunity \in context.traits
         THEN [affinity |-> affValue.none,
               affinityMessage |-> "FU.ChatApplyDamageImmuneIgnored"]
         ELSE [s EXCEPT !.affinityMessage = "FU.ChatApplyDamageImmune"]
    ELSE s

\* lines 133-139
absorptionRule(s, context) ==
    IF s.affinity = affValue.absorption
    THEN IF "ignoreAbsorption" \in context.extraDamageInfo
         THEN [s EXCEPT !.affinity = affValue.none]
         ELSE [s EXCEPT !.affinityMessage = "FU.ChatApplyDamageAbsorb"]
    ELSE s

resolveAffinity(context) ==
    LET s0 == [affinity |-> startingAffinity(context),
               affinityMessage |-> "FU.ChatApplyDamageNormal"]
        s4 == absorptionRule(immunityRule(resistanceRule(vulnerabilityRule(s0, context),
                                                         context), context), context)
    IN [context EXCEPT !.affinityMessage = s4.affinityMessage,
                       !.affinity = s4.affinity,
                       !.lookup = s0.affinity]

\* overrideResult: TRUE when the result was overridden
overrides_total(context) == Truthy(context.overrides.total)

overrideResult(context) ==
    IF overrides_total(context)
    THEN [context EXCEPT !.result = context.overrides.total]
    ELSE context

\* a bonus table is [present, sub, all, typed]: present = system.bonuses exists,
\* sub = its damage / incomingDamage sub-table exists, all = the sub-table's
\* `all`, typed = its entry for the damage type (undefined when it has none).
\* Reading `.all` of a missing sub-table throws a TypeError.
sourceThrows(context) ==
    /\ context.sourceActor.present
    /\ context.sourceActor.bonuses.present
    /\ ~context.sourceActor.bonuses.sub

targetThrows(context) ==
    /\ actors[context.actor].bonuses.present
    /\ ~actors[context.actor].bonuses.sub

incrementsThrow(context) == sourceThrows(context) \/ targetThrows(context)

\* lines 164-170
sourceIncrements(context) ==
    LET source == context.sourceActor
    IN IF source.present /\ source.bonuses.present /\ source.bonuses.sub
       THEN [context EXCEPT !.bonuses =
                MapSet(MapSet(context.bonuses, "outgoingDamage.all", source.bonuses.all),
                       "outgoingDamage.damageType", Coalesce(source.bonuses.typed, Num(0)))]
       ELSE context

\* lines 173-177
targetIncrements(context) ==
    LET target == actors[context.actor]
    IN IF target.bonuses.present /\ target.bonuses.sub
       THEN [context EXCEPT !.bonuses =
                MapSet(MapSet(context.bonuses, "incomingDamage.all", target.bonuses.all),
                       "incomingDamage.damageType", Coalesce(target.bonuses.typed, Num(0)))]
       ELSE context

collectIncrements(context) == targetIncrements(sourceIncrements(context))

\* what a listener of the collect hook adds to the context it receives:
\* a bonus and a modifier, each undefined when it adds none
NoContribution == [bonus |-> Undef, modifier |-> Undef]

collectHook(context, contribution) ==
    LET b == IF contribution.bonus = Undef THEN context.bonuses
             ELSE MapSet(context.bonuses, "listener.bonus", contribution.bonus)
        m == IF contribution.modifier = Undef THEN context.modifiers
             ELSE MapSet(context.modifiers, "listener.modifier", contribution.modifier)
    IN [context EXCEPT !.bonuses = b, !.modifiers = m]

\* lines 186-194: the built-in modifiers
builtinMultipliers(context) ==
    LET scaleIncomingDamage == actors[context.actor].scaleIncomingDamage
        m1 == IF Truthy(scaleIncomingDamage)
              THEN MapSet(context.modifiers, "scaleIncomingDamage", scaleIncomingDamage)
              ELSE context.modifiers
    IN [context EXCEPT !.modifiers =
            MapSet(m1, "affinity", affinityDamageModifier(context.affinity))]

\* the hook called before the built-in modifiers are recorded
collectMultipliersHookFirst(context, contribution) ==
    builtinMultipliers(collectHook(context, contribution))

collectMultipliers(context, contribution) ==
    collectHook(builtinMultipliers(context), contribution)

\* lines 206-215: increments, then multipliers, in map order
RECURSIVE foldAdd(_, _, _)
foldAdd(result, m, i) ==
    IF i > Len(m) THEN result ELSE foldAdd(Add(result, m[i].value), m, i + 1)

RECURSIVE foldMul(_, _, _)
foldMul(result, m, i) ==
    IF i > Len(m) THEN result ELSE foldMul(Mul(result, m[i].value), m, i + 1)

\* the fold with the two loops in the other order
foldMultipliersFirst(context) ==
    foldAdd(foldMul(context.amount, context.modifiers, 1), context.bonuses, 1)

foldResult(context) == foldMul(foldAdd(context.amount, context.bonuses, 1), context.modifiers, 1)

\* what a listener of the calculate hook does to context.result:
\* [write, value]; write = FALSE leaves it, value = undefined deletes it
NoWrite == [write |-> FALSE, value |-> Undef]

calculateResult(context, adjust) ==
    LET result == foldResult(context)
    IN [context EXCEPT !.folded = result,
                       !.result = IF adjust.write THEN adjust.value ELSE result,
                       !.calcWrote = adjust.write]

---------------------------------------------------------------------------
(* Values the inputs are drawn from *)

Actors == {"a1", "a2"}

Absent == [shape |-> "absent", list |-> <<>>]
Other == [shape |-> "other", list |-> <<>>]
List(l) == [shape |-> "list", list |-> l]

TargetLists == UNION {[1..k -> Actors] : k \in 0..MaxTargets}

NoBonuses == [present |-> FALSE, sub |-> FALSE, all |-> Undef, typed |-> Undef]
BrokenBonuses == [present |-> TRUE, sub |-> FALSE, all |-> Undef, typed |-> Undef]
Bonuses(all, typed) == [present |-> TRUE, sub |-> TRUE, all |-> all, typed |-> typed]

NoSource == [present |-> FALSE, bonuses |-> NoBonuses]
Source(b) == [present |-> TRUE, bonuses |-> b]

NoEntry == [t \in {} |-> Undef]
Entry(tier) == [t \in {"fire"} |-> tier]
AffinityTables == {NoEntry} \cup {Entry(t) : t \in Tiers}

Actor(aff, bon, scale) == [affinities |-> aff, bonuses |-> bon, scaleIncomingDamage |-> scale]

\* v || 0
OrZero(v) == IF Truthy(v) THEN v ELSE Num(0)

\* the numeric fields of the two descriptors the constructor reads
BaseDamageInfo(total, modifierTotal) == [total |-> total, modifierTotal |-> modifierTotal]
ExtraDamage(hrZero, damageBonus, extraDamage) ==
    [hrZero |-> hrZero, damageBonus |-> damageBonus, extraDamage |-> extraDamage]
NoExtraDamage == ExtraDamage(FALSE, Undef, Undef)

\* line 32: this.amount of the constructor
amountOf(baseDamageInfo, extra) ==
    IF extra.hrZero
    THEN Add(Add(extra.damageBonus, baseDamageInfo.modifierTotal), OrZero(extra.extraDamage))
    ELSE Add(Add(baseDamageInfo.total, OrZero(extra.damageBonus)), OrZero(extra.extraDamage))

\* the constructor, lines 23-33, from descriptors that carry both a total
\* and its modifier part
DamageRequest(targets, baseDamageInfo, extra, source) ==
    [targets |-> targets,
     extraTargets |-> Absent,
     overrides |-> [affinity |-> Undef, total |-> Undef],
     extraDamageInfo |-> {},
     traits |-> {},
     baseDamageInfo |-> baseDamageInfo,
     extraDamage |-> extra,
     amount |-> amountOf(baseDamageInfo, extra),
     damageType |-> "fire",
     sourceActor |-> source]

\* the constructor for a base total of `amount` and no damage bonus, extra
\* damage or hrZero in the extra descriptor
Request(targets, extraTargets, affinity, total, extra, traits, amount, source) ==
    [targets |-> targets,
     extraTargets |-> extraTargets,
     overrides |-> [affinity |-> affinity, total |-> total],
     extraDamageInfo |-> extra,
     traits |-> traits,
     baseDamageInfo |-> BaseDamageInfo(amount, Num(0)),
     extraDamage |-> NoExtraDamage,
     amount |-> amountOf(BaseDamageInfo(amount, Num(0)), NoExtraDamage),
     damageType |-> "fire",
     sourceActor |-> source]

\* what the listeners of the two context hooks may do
Contributions == {NoContribution,
                  [bonus |-> Num(3), modifier |-> Undef],
                  [bonus |-> Undef, modifier |-> Num(3)],
                  [bonus |-> Undef, modifier |-> Half]}

Adjustments == {NoWrite, [write |-> TRUE, value |-> Num(1)], [write |-> TRUE, value |-> Undef]}

\* the two legacy hooks and what their listeners may write into the total of
\* the hook data object they receive
LegacyHooks == {"DAMAGE_APPLY_BEFORE", "DAMAGE_APPLY_TARGET"}

HookDataWrites == {NoWrite, [write |-> TRUE, value |-> Num(0)], [write |-> TRUE, value |-> Num(99)]}

InitialHp == Num(20)

---------------------------------------------------------------------------
(* Initial states: a request handed to process, the actors it meets and the
   registered hook listeners *)

\* no invocation of process in the variables
NoInvocation == [pc |-> "none"]

\* no click handler between its accepted click and the end of its work
Idle == [pc |-> "idle"]

Started ==
    /\ hp = [a \in Actors |-> InitialHp]
    /\ pc = "call"
    /\ idx = 0
    /\ contexts = <<>>
    /\ updates = <<>>
    /\ log = <<>>
    /\ error = "none"
    /\ hookData = <<>>

\* every affinity override, affinity table entry, ignore flag and trait
InitAffinity ==
    /\ \E affinity \in {Undef} \cup Tiers, extra \in SUBSET IgnoreFlags,
          traits \in SUBSET {Traits.IgnoreResistance, Traits.IgnoreImmunity} :
          request = Request(List(<<"a1">>), Absent, affinity, Undef, extra, traits,
                            Num(10), NoSource)
    /\ \E table \in AffinityTables :
          actors = [a \in Actors |-> Actor(table, NoBonuses, Undef)]
    /\ listeners = {}
    /\ Started

\* every shape of bonus table, scale flag, tier and hook listener
InitCalculation ==
    /\ \E amount \in {Num(8), Num(10)},
          source \in {NoSource, Source(NoBonuses), Source(Bonuses(Num(2), Num(3)))} :
          request = Request(List(<<"a1">>), Absent, Undef, Undef, {}, {}, amount, source)
    /\ \E table \in AffinityTables,
          bon \in {NoBonuses, Bonuses(Num(1), Undef)},
          scale \in {Undef, Num(0), Num(2)} :
          actors = [a \in Actors |-> Actor(table, bon, scale)]
    /\ listeners \in SUBSET ContextHooks
    /\ Started

\* the actors of the multi-target runs: a1 resists and halves nothing but
\* scales by 2, a2 absorbs and carries the incoming bonus table bon
Party(bon) ==
    [a \in Actors |->
        IF a = "a1" THEN Actor(Entry(affValue.resistance), NoBonuses, Num(2))
        ELSE Actor(Entry(affValue.absorption), bon, Undef)]

\* every shape of the two target fields
InitValidation ==
    /\ \E targets \in {Absent, Other} \cup {List(l) : l \in TargetLists},
          extraTargets \in {Absent, List(<<"a2">>)} :
          request = Request(targets, extraTargets, Undef, Undef, {}, {}, Num(8),
                            Source(Bonuses(Num(2), Undef)))
    /\ actors = Party(Bonuses(Num(1), Num(1)))
    /\ listeners = {}
    /\ Started

\* every target list and total override, with stages that can fail
\* (a total override that is taken skips the stages that can fail)
InitOrchestration ==
    /\ \E targets \in {List(l) : l \in TargetLists},
          total \in {Undef, Num(0), Num(99), Num(-4)} :
          /\ request = Request(targets, Absent, Undef, total, {}, {}, Num(8),
                               Source(Bonuses(Num(2), Undef)))
          /\ \/ actors = Party(Bonuses(Num(1), Num(1))) /\ listeners = {}
             \/ /\ ~Truthy(total)
                /\ actors = Party(BrokenBonuses)
                /\ listeners = {}
             \/ /\ ~Truthy(total)
                /\ actors = Party(Bonuses(Num(1), Num(1)))
                /\ listeners = {"DAMAGE_PIPELINE_CALCULATE"}
    /\ Started

\* requests built from every shape of the numeric descriptor fields
InitConstruction ==
    /\ Started
    /\ \E hrZero \in BOOLEAN, damageBonus \in {Undef, Num(0), Num(2)},
          extraDamage \in {Undef, Num(3)}, modifierTotal \in {Num(0), Num(4)},
          l \in {<<"a1">>, <<"a2", "a1">>} :
          request = DamageRequest(List(l), BaseDamageInfo(Num(10), modifierTotal),
                                  ExtraDamage(hrZero, damageBonus, extraDamage),
                                  Source(Bonuses(Num(2), Undef)))
    /\ actors = Party(Bonuses(Num(1), Num(1)))
    /\ listeners = {}

\* listeners of the legacy hooks
InitLegacy ==
    /\ Started
    /\ \E l \in {<<"a1">>, <<"a2", "a1">>}, total \in {Undef, Num(0), Num(99)} :
          request = Request(List(l), Absent, Undef, total, {}, {}, Num(8),
                            Source(Bonuses(Num(2), Undef)))
    /\ actors = Party(Bonuses(Num(1), Num(1)))
    /\ listeners \in (SUBSET LegacyHooks) \ {{}}

\* process called once, from no click handler
Alone ==
    /\ other = NoInvocation
    /\ disabled = FALSE
    /\ handler = Idle
    /\ clicks = 0

Init ==
    /\ \/ InitAffinity
       \/ InitCalculation
       \/ InitValidation
       \/ InitOrchestration
       \/ InitConstruction
       \/ InitLegacy
    /\ Alone

---------------------------------------------------------------------------
(* process(request): one action per step; the steps between two awaits run
   without interruption, so the asynchronous operations only move while
   process is suspended at an await or has settled *)

context == contexts[Len(contexts)]

SetContext(c) == contexts' = [contexts EXCEPT ![Len(contexts)] = c]

Event(ev) == log' = Append(log, [ev |-> ev, target |-> idx])

Events(evs) == log' = log \o [i \in 1..Len(evs) |-> [ev |-> evs[i], target |-> idx]]

\* process stands at an await or has settled, and the click handler that
\* called it, if any, has run to its own end
Suspended ==
    /\ pc \in {"awaitIcon", "awaitMessage", "gather", "resolved", "rejected"}
    /\ handler.pc # "applying"

\* line 227-229: an invalid request is rejected
RejectInvalid ==
    /\ pc = "call"
    /\ ~validate(request)
    /\ pc' = "rejected"
    /\ error' = "Request was not valid"
    /\ UNCHANGED <<request, actors, listeners, hp, idx, contexts, updates, log, hookData>>
    /\ UNCHANGED outside

\* line 232: the object handed to the listeners of the request-level hook
\* (given keeps the total the object was built with)
BeforeApplyHookData(req) ==
    [ev |-> "DAMAGE_APPLY_BEFORE", target |-> 0, total |-> req.baseDamageInfo.total,
     given |-> req.baseDamageInfo.total]

\* line 250: the object handed to the listeners of the per-target hook
ApplyTargetHookData(req, i, result) ==
    [ev |-> "DAMAGE_APPLY_TARGET", target |-> i, total |-> result, given |-> result]

\* Hooks.call(hook, data): a listener may write data.total
HooksCall(hook, data) ==
    \E w \in HookDataWrites :
        /\ hook \notin listeners => w = NoWrite
        /\ hookData' = Append(hookData, IF w.write THEN [data EXCEPT !.total = w.value]
                                        ELSE data)

\* lines 232-235: the request-level legacy hook, then the loop starts
BeforeApply ==
    /\ pc = "call"
    /\ validate(request)
    /\ HooksCall("DAMAGE_APPLY_BEFORE", BeforeApplyHookData(request))
    /\ log' = Append(log, [ev |-> "DAMAGE_APPLY_BEFORE", target |-> 0])
    /\ idx' = 1
    /\ pc' = "loop"
    /\ UNCHANGED <<request, actors, listeners, hp, contexts, updates, error>>
    /\ UNCHANGED outside

\* the loop run over request.allTargets
NextTargetAllTargets ==
    /\ pc = "loop"
    /\ idx <= Len(request.targets.list)
    /\ contexts' = Append(contexts,
                          DamagePipelineContext(request,
                              allTargets(request).list[IF idx <= Len(allTargets(request).list)
                                                       THEN idx ELSE 1]))
    /\ Event("context")
    /\ pc' = "resolveAffinity"
    /\ UNCHANGED <<request, actors, listeners, hp, idx, updates, error, hookData>>
    /\ UNCHANGED outside

\* line 236-238: the next actor of request.targets gets a fresh context
NextTarget ==
    /\ pc = "loop"
    /\ idx <= Len(request.targets.list)
    /\ contexts' = Append(contexts, DamagePipelineContext(request, request.targets.list[idx]))
    /\ Event("context")
    /\ pc' = "resolveAffinity"
    /\ UNCHANGED <<request, actors, listeners, hp, idx, updates, error, hookData>>
    /\ UNCHANGED outside

\* line 275: the loop is over, Promise.all(updates)
LoopDone ==
    /\ pc = "loop"
    /\ idx > Len(request.targets.list)
    /\ pc' = "gather"
    /\ UNCHANGED <<request, actors, listeners, hp, idx, contexts, updates, log, error, hookData>>
    /\ UNCHANGED outside

ResolveAffinity ==
    /\ pc = "resolveAffinity"
    /\ SetContext(resolveAffinity(context))
    /\ Event("affinity")
    /\ pc' = "overrideResult"
    /\ UNCHANGED <<request, actors, listeners, hp, idx, updates, error, hookData>>
    /\ UNCHANGED outside

\* line 240
OverrideResult ==
    /\ pc = "overrideResult"
    /\ SetContext(overrideResult(context))
    /\ pc' = IF overrides_total(context) THEN "checkResult" ELSE "collectIncrements"
    /\ UNCHANGED <<request, actors, listeners, hp, idx, updates, log, error, hookData>>
    /\ UNCHANGED outside

CollectIncrements ==
    /\ pc = "collectIncrements"
    /\ IF incrementsThrow(context)
       THEN /\ SetContext(IF sourceThrows(context) THEN context
                           ELSE sourceIncrements(context))
            /\ pc' = "rejected"
            /\ error' = "TypeError"
            /\ UNCHANGED log
       ELSE /\ SetContext(collectIncrements(context))
            /\ Event("bonuses")
            /\ pc' = "collectMultipliers"
            /\ UNCHANGED error
    /\ UNCHANGED <<request, actors, listeners, hp, idx, updates, hookData>>
    /\ UNCHANGED outside

\* the built-in modifiers, then Hooks.call(DAMAGE_PIPELINE_COLLECT, context)
CollectMultipliers ==
    /\ pc = "collectMultipliers"
    /\ \E contribution \in Contributions :
          /\ "DAMAGE_PIPELINE_COLLECT" \notin listeners => contribution = NoContribution
          /\ SetContext(collectMultipliers(context, contribution))
    /\ Events(<<"modifiers", "DAMAGE_PIPELINE_COLLECT">>)
    /\ pc' = "calculateResult"
    /\ UNCHANGED <<request, actors, listeners, hp, idx, updates, error, hookData>>
    /\ UNCHANGED outside

\* the fold, then Hooks.call(DAMAGE_PIPELINE_CALCULATE, context)
CalculateResult ==
    /\ pc = "calculateResult"
    /\ \E adjust \in Adjustments :
          /\ "DAMAGE_PIPELINE_CALCULATE" \notin listeners => adjust = NoWrite
          /\ SetContext(calculateResult(context, adjust))
    /\ Events(<<"fold", "DAMAGE_PIPELINE_CALCULATE">>)
    /\ pc' = "checkResult"
    /\ UNCHANGED <<request, actors, listeners, hp, idx, updates, error, hookData>>
    /\ UNCHANGED outside

\* process without the test of lines 245-247
CheckResultNoThrow ==
    /\ pc = "checkResult"
    /\ pc' = "applyTarget"
    /\ UNCHANGED <<request, actors, listeners, hp, idx, contexts, updates, log, error, hookData>>
    /\ UNCHANGED outside

\* lines 245-247
CheckResult ==
    /\ pc = "checkResult"
    /\ IF context.result = Undef
       THEN /\ pc' = "rejected"
            /\ error' = "Failed to generate result during pipeline"
       ELSE /\ pc' = "applyTarget"
            /\ UNCHANGED error
    /\ UNCHANGED <<request, actors, listeners, hp, idx, contexts, updates, log, hookData>>
    /\ UNCHANGED outside

\* lines 254-255: the pool operation of the current target
damageTakenNotNegated(c) == c.result

\* the delta read back from the hook data object of the per-target hook
damageTakenFromHookData(c) == Neg(hookData[Len(hookData)].total)

damageTaken(c) == Neg(c.result)

\* the pool operation called with the new value of the pool, isDelta false
PoolUpdateAbsolute(c, i) ==
    [kind |-> "pool", target |-> i, actor |-> c.actor,
     value |-> Add(hp[c.actor], damageTaken(c)), isDelta |-> FALSE,
     message |-> "", status |-> "pending"]

PoolUpdate(c, i) ==
    [kind |-> "pool", target |-> i, actor |-> c.actor,
     value |-> damageTaken(c), isDelta |-> TRUE,
     message |-> "", status |-> "pending"]

\* lines 262-272: the record of the current target
RecordCreate(c, i) ==
    [kind |-> "record", target |-> i, actor |-> c.actor,
     value |-> Abs(damageTaken(c)), isDelta |-> FALSE,
     message |-> c.affinityMessage, status |-> "pending"]

\* lines 250-251: the legacy per-target hook
ApplyTarget ==
    /\ pc = "applyTarget"
    /\ HooksCall("DAMAGE_APPLY_TARGET", ApplyTargetHookData(request, idx, context.result))
    /\ Event("DAMAGE_APPLY_TARGET")
    /\ pc' = "applyDamage"
    /\ UNCHANGED <<request, actors, listeners, hp, idx, contexts, updates, error>>
    /\ UNCHANGED outside

\* lines 254-257: the pool operation is issued, then process awaits the
\* first template
ApplyDamage ==
    /\ pc = "applyDamage"
    /\ updates' = Append(updates, PoolUpdate(context, idx))
    /\ Event("pool")
    /\ pc' = "awaitIcon"
    /\ UNCHANGED <<request, actors, listeners, hp, idx, contexts, error, hookData>>
    /\ UNCHANGED outside

\* line 257 resumes, line 265 awaits the second template
IconRendered ==
    /\ pc = "awaitIcon"
    /\ Suspended
    /\ pc' = "awaitMessage"
    /\ UNCHANGED <<request, actors, listeners, hp, idx, contexts, updates, log, error, hookData>>
    /\ UNCHANGED outside

\* line 265 resumes: ChatMessage.create is called and the loop goes on
MessageRendered ==
    /\ pc = "awaitMessage"
    /\ Suspended
    /\ updates' = Append(updates, RecordCreate(context, idx))
    /\ Event("record")
    /\ idx' = idx + 1
    /\ pc' = "loop"
    /\ UNCHANGED <<request, actors, listeners, hp, contexts, error, hookData>>
    /\ UNCHANGED outside

\* an awaited renderTemplate rejects: process rejects with it
RenderRejected ==
    /\ pc \in {"awaitIcon", "awaitMessage"}
    /\ Suspended
    /\ pc' = "rejected"
    /\ error' = "renderTemplate"
    /\ UNCHANGED <<request, actors, listeners, hp, idx, contexts, updates, log, hookData>>
    /\ UNCHANGED outside

\* Promise.allSettled in place of Promise.all: fulfils once nothing is pending
AllSettled ==
    /\ pc = "gather"
    /\ Suspended
    /\ \A i \in 1..Len(updates) : updates[i].status # "pending"
    /\ pc' = "resolved"
    /\ UNCHANGED <<request, actors, listeners, hp, idx, contexts, updates, log, error, hookData>>
    /\ UNCHANGED outside

\* Promise.all(updates) fulfils once every operation has
AllFulfilled ==
    /\ pc = "gather"
    /\ Suspended
    /\ \A i \in 1..Len(updates) : updates[i].status = "fulfilled"
    /\ pc' = "resolved"
    /\ UNCHANGED <<request, actors, listeners, hp, idx, contexts, updates, log, error, hookData>>
    /\ UNCHANGED outside

\* Promise.all(updates) rejects with the first operation that rejected
SomeRejected ==
    /\ pc = "gather"
    /\ Suspended
    /\ \E i \in 1..Len(updates) : updates[i].status = "rejected"
    /\ pc' = "rejected"
    /\ error' = "operation"
    /\ UNCHANGED <<request, actors, listeners, hp, idx, contexts, updates, log, hookData>>
    /\ UNCHANGED outside

---------------------------------------------------------------------------
(* The asynchronous operations process issued *)

\* actor.modifyTokenAttribute('resources.hp', value, isDelta) takes effect:
\* a delta is added to the pool as it is then, a value replaces it
modifyTokenAttribute(pool, value, isDelta) == IF isDelta THEN Add(pool, value) ELSE value

PoolFulfilled(i) ==
    /\ Suspended
    /\ updates[i].kind = "pool"
    /\ updates[i].status = "pending"
    /\ hp' = [hp EXCEPT ![updates[i].actor] = modifyTokenAttribute(@, updates[i].value, updates[i].isDelta)]
    /\ updates' = [updates EXCEPT ![i].status = "fulfilled"]
    /\ UNCHANGED <<request, actors, listeners, pc, idx, contexts, log, error, hookData>>
    /\ UNCHANGED outside

RecordFulfilled(i) ==
    /\ Suspended
    /\ updates[i].kind = "record"
    /\ updates[i].status = "pending"
    /\ updates' = [updates EXCEPT ![i].status = "fulfilled"]
    /\ UNCHANGED <<request, actors, listeners, hp, pc, idx, contexts, log, error, hookData>>
    /\ UNCHANGED outside

OperationRejected(i) ==
    /\ Suspended
    /\ updates[i].status = "pending"
    /\ updates' = [updates EXCEPT ![i].status = "rejected"]
    /\ UNCHANGED <<request, actors, listeners, hp, pc, idx, contexts, log, error, hookData>>
    /\ UNCHANGED outside

---------------------------------------------------------------------------
(* A second caller of process: while one invocation waits at an await, the
   event loop may run the other up to its own next await *)

\* the invocation in the variables
Running ==
    [request |-> request, pc |-> pc, idx |-> idx, contexts |-> contexts,
     updates |-> updates, log |-> log, error |-> error, hookData |-> hookData]

\* process(req), called and not yet run
Invocation(req) ==
    [request |-> req, pc |-> "call", idx |-> 0, contexts |-> <<>>,
     updates |-> <<>>, log |-> <<>>, error |-> "none", hookData |-> <<>>]

\* nothing of the invocation can move any more
Finished(inv) ==
    /\ inv.pc \in {"resolved", "rejected"}
    /\ \A i \in 1..Len(inv.updates) : inv.updates[i].status # "pending"

\* the event loop turns to the other invocation
Switch ==
    /\ Suspended
    /\ other # NoInvocation
    /\ ~Finished(other)
    /\ other' = Running
    /\ request' = other.request
    /\ pc' = other.pc
    /\ idx' = other.idx
    /\ contexts' = other.contexts
    /\ updates' = other.updates
    /\ log' = other.log
    /\ error' = other.error
    /\ hookData' = other.hookData
    /\ UNCHANGED <<actors, listeners, hp, disabled, handler, clicks>>

Next ==
    \/ RejectInvalid
    \/ BeforeApply
    \/ NextTarget
    \/ LoopDone
    \/ ResolveAffinity
    \/ OverrideResult
    \/ CollectIncrements
    \/ CollectMultipliers
    \/ CalculateResult
    \/ CheckResult
    \/ ApplyTarget
    \/ ApplyDamage
    \/ IconRendered
    \/ MessageRendered
    \/ RenderRejected
    \/ AllFulfilled
    \/ SomeRejected
    \/ \E i \in 1..Len(updates) : PoolFulfilled(i)
    \/ \E i \in 1..Len(updates) : RecordFulfilled(i)
    \/ \E i \in 1..Len(updates) : OperationRejected(i)

Spec == Init /\ [][Next]_vars

\* two callers whose target lists overlap
InitConcurrent ==
    /\ Started
    /\ \E first \in {<<"a1">>, <<"a1", "a2">>, <<"a2", "a1">>, <<"a1", "a1">>},
          second \in {List(<<"a1">>), List(<<"a2">>), Other} :
          /\ request = Request(List(first), Absent, Undef, Undef, {}, {}, Num(8),
                               Source(Bonuses(Num(2), Undef)))
          /\ other = Invocation(Request(second, Absent, Undef, Undef, {}, {}, Num(8),
                                        Source(Bonuses(Num(2), Undef))))
    /\ actors = Party(Bonuses(Num(1), Num(1)))
    /\ listeners = {}
    /\ disabled = FALSE
    /\ handler = Idle
    /\ clicks = 0

NextConcurrent == Next \/ Switch

SpecConcurrent == InitConcurrent /\ [][NextConcurrent]_vars

---------------------------------------------------------------------------
(* onRenderChatMessage: the damage controls of one rendered message and the
   flag `disabled` their click handlers share.  A handler runs from its click
   to its first await, and from there to its end, without interruption. *)

\* the data-action of the four controls (lines 335-339)
Controls == {"applySingleDamage", "applySelectedDamage", "applyTargetedDamage",
             "selectDamageCustomizer"}

\* a click event: ctrlKey stands for event.ctrlKey || event.metaKey
ClickEvents == [control : Controls, ctrlKey : BOOLEAN, shiftKey : BOOLEAN]

\* lines 290-310: the baseDamageInfo read from the message
MessageDamage == BaseDamageInfo(Num(10), Num(4))

\* what getTargetsFunction(event) may resolve with
TargetResolutions == {<<>>, <<"a1">>}

\* what the customization dialog may hand to its confirm callback
DialogResults == {NoExtraDamage, ExtraDamage(FALSE, Num(2), Undef)}

\* lines 368-377: the request handleDamageApplication builds
handleDamageApplication(event, targets, extraDamageInfo) ==
    [DamageRequest(List(targets), MessageDamage, extraDamageInfo, NoSource)
        EXCEPT !.traits = IF ~event.shiftKey THEN {}
                          ELSE IF event.ctrlKey
                               THEN {Traits.IgnoreResistance, Traits.IgnoreImmunity}
                               ELSE {Traits.IgnoreResistance}]

\* the event loop is free to run a click handler or a callback
JsIdle == handler.pc # "applying" /\ (pc = "none" \/ Suspended)

\* line 378: process(request) is called; an invocation still in flight is
\* kept aside, one that has finished is forgotten
CallProcess(req) ==
    /\ IF pc = "none" \/ Finished(Running)
       THEN UNCHANGED other
       ELSE /\ other = NoInvocation \/ Finished(other)
            /\ other' = Running
    /\ request' = req
    /\ pc' = "call"
    /\ idx' = 0
    /\ contexts' = <<>>
    /\ updates' = <<>>
    /\ log' = <<>>
    /\ error' = "none"
    /\ hookData' = <<>>

\* lines 312-316 and 339-342: a click; it is accepted when the flag is clear,
\* and the handler then waits for the targets
Click(event) ==
    /\ JsIdle
    /\ clicks < MaxClicks
    /\ clicks' = clicks + 1
    /\ IF disabled
       THEN UNCHANGED <<disabled, handler>>
       ELSE /\ disabled' = TRUE
            /\ handler' = [pc |-> "awaitTargets", event |-> event]
    /\ UNCHANGED <<request, actors, listeners, hp, pc, idx, contexts, updates, log, error,
                   hookData, other>>

\* lines 316-332 and 342-352: the targets arrive; the dialog opens for the
\* customizer control or a held ctrl/meta key, otherwise the damage is applied
TargetsResolved(targets) ==
    /\ JsIdle
    /\ handler.pc = "awaitTargets"
    /\ IF handler.event.control = "selectDamageCustomizer" \/ handler.event.ctrlKey
       THEN /\ handler' = [pc |-> "dialog", event |-> handler.event, targets |-> targets]
            /\ UNCHANGED <<request, pc, idx, contexts, updates, log, error, hookData, other>>
       ELSE /\ CallProcess(handleDamageApplication(handler.event, targets, NoExtraDamage))
            /\ handler' = [pc |-> "applying"]
    /\ UNCHANGED <<actors, listeners, hp, disabled, clicks>>

\* the awaited getTargetsFunction(event) rejects: the handler ends there
TargetsRejected ==
    /\ JsIdle
    /\ handler.pc = "awaitTargets"
    /\ handler' = [pc |-> "failed"]
    /\ UNCHANGED <<request, actors, listeners, hp, pc, idx, contexts, updates, log, error,
                   hookData, other, disabled, clicks>>

\* lines 321-322 and 346-347: the confirm callback of the dialog
DialogConfirmed(extraDamageInfo) ==
    /\ JsIdle
    /\ handler.pc = "dialog"
    /\ CallProcess(handleDamageApplication(handler.event, handler.targets, extraDamageInfo))
    /\ handler' = [pc |-> "applying"]
    /\ UNCHANGED <<actors, listeners, hp, disabled, clicks>>

\* lines 325-327 and 350-352: the cancel callback of the dialog
DialogCancelled ==
    /\ JsIdle
    /\ handler.pc = "dialog"
    /\ disabled' = FALSE
    /\ handler' = Idle
    /\ UNCHANGED <<request, actors, listeners, hp, pc, idx, contexts, updates, log, error,
                   hookData, other, clicks>>

\* lines 323, 331 and 348: handleDamageApplication has returned its promise,
\* process standing at its first await or settled; the flag is cleared
Release ==
    /\ handler.pc = "applying"
    /\ pc \in {"awaitIcon", "gather", "rejected"}
    /\ disabled' = FALSE
    /\ handler' = Idle
    /\ UNCHANGED <<request, actors, listeners, hp, pc, idx, contexts, updates, log, error,
                   hookData, other, clicks>>

\* a message has been rendered, nothing clicked yet
InitMessage ==
    /\ request = [targets |-> Absent]   \* no request built yet
    /\ hp = [a \in Actors |-> InitialHp]
    /\ pc = "none"
    /\ idx = 0
    /\ contexts = <<>>
    /\ updates = <<>>
    /\ log = <<>>
    /\ error = "none"
    /\ hookData = <<>>
    /\ actors = Party(Bonuses(Num(1), Num(1)))
    /\ listeners = {}
    /\ other = NoInvocation
    /\ disabled = FALSE
    /\ handler = Idle
    /\ clicks = 0

\* the handlers and the steps of the invocations they start; the targets of
\* their requests are always a list, so no request of theirs is invalid
NextMessage ==
    \/ \E event \in ClickEvents : Click(event)
    \/ \E targets \in TargetResolutions : TargetsResolved(targets)
    \/ TargetsRejected
    \/ \E extraDamageInfo \in DialogResults : DialogConfirmed(extraDamageInfo)
    \/ DialogCancelled
    \/ Release
    \/ Switch
    \/ BeforeApply
    \/ NextTarget
    \/ LoopDone
    \/ ResolveAffinity
    \/ OverrideResult
    \/ CollectIncrements
    \/ CollectMultipliers
    \/ CalculateResult
    \/ CheckResult
    \/ ApplyTarget
    \/ ApplyDamage
    \/ IconRendered
    \/ MessageRendered
    \/ RenderRejected
    \/ AllFulfilled
    \/ SomeRejected
    \/ \E i \in 1..Len(updates) : PoolFulfilled(i)
    \/ \E i \in 1..Len(updates) : RecordFulfilled(i)
    \/ \E i \in 1..Len(updates) : OperationRejected(i)

SpecMessage == InitMessage /\ [][NextMessage]_vars

---------------------------------------------------------------------------
(* Vocabulary of the properties *)

\* the event ev of target i has happened
Done(i, ev) == \E j \in 1..Len(log) : log[j] = [ev |-> ev, target |-> i]

\* d is -r: the two cancel, and the negation of a NaN is a NaN
IsNegationOf(d, r) == IF IsNum(r) THEN IsNum(d) /\ Add(d, r) = Num(0) ELSE d = NaN

\* the events of target i, in the order they happened
RECURSIVE TargetLog(_, _)
TargetLog(i, n) ==
    IF n = 0 THEN <<>>
    ELSE IF log[n].target = i THEN Append(TargetLog(i, n - 1), log[n].ev)
    ELSE TargetLog(i, n - 1)

RECURSIVE SumValues(_)
SumValues(m) == IF m = <<>> THEN Num(0) ELSE Add(m[1].value, SumValues(Tail(m)))

RECURSIVE ProductValues(_)
ProductValues(m) == IF m = <<>> THEN Num(1) ELSE Mul(m[1].value, ProductValues(Tail(m)))

TierMultiplierHolds(tier, value) ==
    /\ tier = affValue.vulnerability => value = Num(2)
    /\ tier = affValue.none => value = Num(1)
    /\ tier = affValue.resistance => value = Half
    /\ tier = affValue.immunity => value = Num(0)
    /\ tier = affValue.absorption => value = Num(-1)

---------------------------------------------------------------------------
\* C1: without a total override, the value calculateResult assigns to the
\* context result is (amount + sum of the collected bonuses) * product of the
\* collected modifiers, contributions of the collect hook included; the
\* modifiers hold an 'affinity' entry equal to the multiplier of the resolved
\* tier; and that value is the context result unless a listener of the
\* calculate hook wrote it afterwards.
C1_ResultIsFold ==
    \A i \in 1..Len(contexts) :
        (request.overrides.total = Undef /\ Done(i, "fold")) =>
            LET c == contexts[i]
            IN /\ c.folded = Mul(Add(c.amount, SumValues(c.bonuses)), ProductValues(c.modifiers))
               /\ MapHas(c.modifiers, "affinity")
               /\ c.affinity \in Tiers
               /\ TierMultiplierHolds(c.affinity, MapGet(c.modifiers, "affinity"))
               /\ ~c.calcWrote => c.result = c.folded

\* a resisting, scaling target with bonuses on both sides and a listener bonus:
\* (10 + 2 + 3 + 1 + 0 + 3) * 2 * 0.5 = 19
C1_Witness ==
    \E i \in 1..Len(contexts) :
        /\ request.overrides.total = Undef
        /\ Done(i, "fold")
        /\ contexts[i].affinity = affValue.resistance
        /\ MapHas(contexts[i].bonuses, "listener.bonus")
        /\ Len(contexts[i].bonuses) = 5
        /\ Len(contexts[i].modifiers) = 2
        /\ contexts[i].result = Num(19)

\* C2: with an explicit total override (0 and negative values included) the
\* context result is that total, nothing is collected or calculated, neither
\* context hook fires, affinity resolution still runs and the pool delta is
\* the negated total.
C2_TotalOverrideSkipsPipeline ==
    \A i \in 1..Len(contexts) :
        (request.overrides.total # Undef /\ Done(i, "affinity") /\ i < idx) =>
            /\ contexts[i].result = request.overrides.total
            /\ contexts[i].bonuses = EmptyMap
            /\ contexts[i].modifiers = EmptyMap
            /\ ~Done(i, "DAMAGE_PIPELINE_COLLECT")
            /\ ~Done(i, "DAMAGE_PIPELINE_CALCULATE")
            /\ \A j \in 1..Len(updates) :
                  (updates[j].kind = "pool" /\ updates[j].target = i) =>
                      updates[j].value = Neg(request.overrides.total)

---------------------------------------------------------------------------
\* the ignore flag or trait of the request that matches a tier
IgnoreSet(c, tier) ==
    \/ tier = affValue.vulnerability /\ "ignoreVulnerable" \in c.extraDamageInfo
    \/ tier = affValue.resistance /\ ("ignoreResistance" \in c.extraDamageInfo
                                      \/ "ignore-resistance" \in c.traits)
    \/ tier = affValue.immunity /\ ("ignoreImmunities" \in c.extraDamageInfo
                                    \/ "ignore-immunity" \in c.traits)
    \/ tier = affValue.absorption /\ "ignoreAbsorption" \in c.extraDamageInfo

\* C3: the tier resolveAffinity stores is the starting tier or 'none'; it is
\* 'none' exactly when the starting tier is 'none' or the ignore flag or trait
\* matching the starting tier is set; flags and traits of other tiers change
\* nothing.
C3_IgnoreOnlyDowngrades ==
    \A i \in 1..Len(contexts) :
        Done(i, "affinity") =>
            LET c == contexts[i]
            IN /\ c.lookup \in Tiers
               /\ c.affinity \in {c.lookup, affValue.none}
               /\ c.affinity = affValue.none <=>
                      (c.lookup = affValue.none \/ IgnoreSet(c, c.lookup))

\* an immune target, every flag and trait set except those of immunity
C3_Witness ==
    \E i \in 1..Len(contexts) :
        /\ Done(i, "affinity")
        /\ contexts[i].lookup = affValue.immunity
        /\ contexts[i].affinity = affValue.immunity
        /\ contexts[i].extraDamageInfo = IgnoreFlags \ {"ignoreImmunities"}
        /\ contexts[i].traits = {"ignore-resistance"}

\* C4: an explicit affinity override, whatever tier of the enumeration it
\* names, is the starting tier of resolveAffinity; the target's affinity table
\* is not consulted.
C4_OverrideIsStartingTier ==
    \A i \in 1..Len(contexts) :
        (Done(i, "affinity") /\ request.overrides.affinity \in Tiers) =>
            contexts[i].lookup = request.overrides.affinity

\* C5: the message tag as a function of the starting tier and the ignore
\* flags and traits.
MessageOf(c) ==
    IF c.lookup = affValue.vulnerability
    THEN IF IgnoreSet(c, c.lookup) THEN "FU.ChatApplyDamageNormal"
         ELSE "FU.ChatApplyDamageVulnerable"
    ELSE IF c.lookup = affValue.resistance
    THEN IF IgnoreSet(c, c.lookup) THEN "FU.ChatApplyDamageResistantIgnored"
         ELSE "FU.ChatApplyDamageResistant"
    ELSE IF c.lookup = affValue.immunity
    THEN IF IgnoreSet(c, c.lookup) THEN "FU.ChatApplyDamageImmuneIgnored"
         ELSE "FU.ChatApplyDamageImmune"
    ELSE IF c.lookup = affValue.absorption
    THEN IF IgnoreSet(c, c.lookup) THEN "FU.ChatApplyDamageNormal"
         ELSE "FU.ChatApplyDamageAbsorb"
    ELSE "FU.ChatApplyDamageNormal"

C5_MessageOfTier ==
    \A i \in 1..Len(contexts) :
        Done(i, "affinity") => contexts[i].affinityMessage = MessageOf(contexts[i])

---------------------------------------------------------------------------
\* C6: the delta handed to the pool operation is the negation of the final
\* context result and the record carries its absolute value; a positive result
\* gives a negative delta, a result of 0 a delta of 0, and unignored absorption
\* with no scale flag, no listeners and a positive bonus-adjusted amount gives
\* a positive delta (healing); a single fulfilled pool operation leaves the
\* pool at its former value minus the result.
C6_DeltaIsNegatedResult ==
    \A j \in 1..Len(updates) :
        LET u == updates[j]
            c == contexts[u.target]
        IN /\ u.kind = "pool" =>
                /\ IsNegationOf(u.value, c.result)
                /\ Positive(c.result) => Negative(u.value)
                /\ c.result = Num(0) => u.value = Num(0)
                /\ (/\ Done(u.target, "fold")
                    /\ c.affinity = affValue.absorption
                    /\ ~MapHas(c.modifiers, "scaleIncomingDamage")
                    /\ listeners = {}
                    /\ Positive(Add(c.amount, SumValues(c.bonuses))))
                   => u.value = Add(c.amount, SumValues(c.bonuses))
                /\ (u.status = "fulfilled" /\ Len(request.targets.list) = 1)
                   => hp[u.actor] = Add(InitialHp, u.value)
           /\ u.kind = "record" =>
                /\ j > 1 /\ updates[j - 1].kind = "pool" /\ updates[j - 1].target = u.target
                /\ u.value \in {updates[j - 1].value, Neg(updates[j - 1].value)}
                /\ ~Negative(u.value)

\* amount 8 against an absorbing target: result -8, delta +8, the pool heals
C6_Witness ==
    \E j \in 1..Len(updates) :
        /\ j > 1
        /\ updates[j].kind = "record" /\ updates[j].value = Num(8)
        /\ updates[j - 1].kind = "pool" /\ updates[j - 1].value = Num(8)
        /\ updates[j - 1].status = "fulfilled"
        /\ contexts[updates[j].target].result = Num(-8)
        /\ contexts[updates[j].target].affinity = affValue.absorption
        /\ hp[updates[j].actor] = Num(28)

\* C7: a request with no resolvable targets, or whose targets field is not a
\* list, is rejected, and nothing else happens in that run: no hook, no
\* context, no pool operation, no record.
C7_InvalidRequestHasNoEffect ==
    (\/ request.extraTargets.shape = "absent" /\ request.targets.shape = "absent"
     \/ request.targets.shape # "list") =>
        /\ pc \in {"call", "rejected"}
        /\ pc = "rejected" => error = "Request was not valid"
        /\ log = <<>>
        /\ contexts = <<>>
        /\ updates = <<>>
        /\ hp = [a \in Actors |-> InitialHp]

\* targets is no list although the extra descriptor names targets
C7_Witness ==
    /\ pc = "rejected"
    /\ request.targets.shape = "other"
    /\ request.extraTargets.shape = "list"

\* C8: a request process accepts has a non-empty list of targets; an empty
\* list is rejected rather than resolved with no operation performed.
C8_AcceptedRequestHasTargets ==
    /\ log # <<>> => Len(request.targets.list) > 0
    /\ pc = "resolved" => updates # <<>>

\* C9: on the non-override path the events of a target happen in one order,
\* each once; the collect hook sees the built-in modifiers (scale flag, then
\* affinity) and runs before the fold; the pool receives the context result
\* as the calculate hook left it.
StageOrder == <<"context", "affinity", "bonuses", "modifiers", "DAMAGE_PIPELINE_COLLECT",
                "fold", "DAMAGE_PIPELINE_CALCULATE", "DAMAGE_APPLY_TARGET", "pool", "record">>

IsPrefix(s, t) == Len(s) <= Len(t) /\ \A k \in 1..Len(s) : s[k] = t[k]

C9_StageOrder ==
    \A i \in 1..Len(contexts) :
        ~Truthy(request.overrides.total) =>
            LET c == contexts[i]
                m == c.modifiers
            IN /\ IsPrefix(TargetLog(i, Len(log)), StageOrder)
               /\ i < idx => TargetLog(i, Len(log)) = StageOrder
               /\ MapHas(m, "scaleIncomingDamage") =>
                      m[1].key = "scaleIncomingDamage" /\ m[2].key = "affinity"
               /\ MapHas(m, "listener.modifier") =>
                      /\ m[Len(m)].key = "listener.modifier"
                      /\ m[Len(m) - 1].key = "affinity"
               /\ (MapHas(m, "listener.modifier") /\ Done(i, "fold")) =>
                      c.folded = Mul(Mul(Add(c.amount, SumValues(c.bonuses)),
                                         ProductValues(SubSeq(m, 1, Len(m) - 1))),
                                     MapGet(m, "listener.modifier"))
               /\ \A j \in 1..Len(updates) :
                      (updates[j].kind = "pool" /\ updates[j].target = i) =>
                          /\ IsNegationOf(updates[j].value, c.result)
                          /\ c.calcWrote => updates[j].value = Num(-1)

\* a finished target whose modifiers a collect listener extended and whose
\* result a calculate listener wrote
C9_Witness ==
    \E i \in 1..Len(contexts) :
        /\ request.overrides.total = Undef
        /\ TargetLog(i, Len(log)) = StageOrder
        /\ Len(contexts[i].modifiers) = 3
        /\ MapHas(contexts[i].modifiers, "listener.modifier")
        /\ contexts[i].calcWrote
        /\ \E j \in 1..Len(updates) : updates[j].kind = "pool" /\ updates[j].value = Num(-1)

\* C10: when a target fails (a stage throws, an awaited template, a pool
\* operation or a record rejects) process does not resolve, it rejects; the
\* operations issued for earlier targets stay issued and every fulfilled pool
\* operation stays applied: no pool is rolled back or compensated.
RECURSIVE AppliedTo(_, _)
AppliedTo(a, n) ==
    IF n = 0 THEN Num(0)
    ELSE IF updates[n].kind = "pool" /\ updates[n].actor = a /\ updates[n].status = "fulfilled"
         THEN Add(AppliedTo(a, n - 1), updates[n].value)
         ELSE AppliedTo(a, n - 1)

C10_FailureLeavesEarlierTargets ==
    /\ \A a \in Actors : hp[a] = Add(InitialHp, AppliedTo(a, Len(updates)))
    /\ error # "none" => pc = "rejected"
    /\ pc = "resolved" => \A j \in 1..Len(updates) : updates[j].status = "fulfilled"
    /\ \A i \in 1..Len(contexts) :
          i < idx => /\ updates[2 * i - 1].kind = "pool" /\ updates[2 * i - 1].target = i
                     /\ updates[2 * i].kind = "record" /\ updates[2 * i].target = i

\* the second target throws after the first target's pool operation took effect
C10_Witness ==
    /\ pc = "rejected"
    /\ error = "TypeError"
    /\ Len(contexts) = 2
    /\ updates[1].status = "fulfilled"
    /\ updates[1].actor = "a1"
    /\ hp["a1"] # InitialHp

---------------------------------------------------------------------------
\* C11: when the calculation stage (calculate hook included) leaves the
\* context of a target without a result, process rejects with an error and
\* neither that target nor a later one gets a pre-apply hook, a pool operation
\* or a record.
C11_MissingResultAborts ==
    \A i \in 1..Len(contexts) :
        (Done(i, "DAMAGE_PIPELINE_CALCULATE") /\ contexts[i].result = Undef) =>
            /\ pc \in {"checkResult", "rejected"}
            /\ pc = "rejected" => error = "Failed to generate result during pipeline"
            /\ Len(contexts) = i
            /\ \A j \in 1..Len(log) :
                  log[j].target >= i =>
                      log[j].ev \notin {"DAMAGE_APPLY_TARGET", "pool", "record"}
            /\ \A j \in 1..Len(updates) : updates[j].target < i

\* the second of two targets lost its result after the first was applied
C11_Witness ==
    /\ pc = "rejected"
    /\ error = "Failed to generate result during pipeline"
    /\ Len(request.targets.list) = 2
    /\ Len(contexts) = 2
    /\ contexts[2].result = Undef
    /\ Len(updates) = 2
    /\ updates[1].status = "fulfilled"

---------------------------------------------------------------------------
\* C12: the amount is fixed at construction and every context carries it;
\* with hrZero it is damageBonus + modifierTotal + extraDamage, whatever the
\* base total, otherwise base total + damageBonus + extraDamage; an absent
\* damageBonus or extraDamage counts as 0, so the amount is a number.
C12_AmountIsNumber ==
    LET b == request.baseDamageInfo
        x == request.extraDamage
        orZero(v) == IF v = Undef THEN Num(0) ELSE v
    IN /\ IsNum(request.amount)
       /\ request.amount =
              IF x.hrZero
              THEN Add(Add(orZero(x.damageBonus), b.modifierTotal), orZero(x.extraDamage))
              ELSE Add(Add(b.total, orZero(x.damageBonus)), orZero(x.extraDamage))
       /\ \A i \in 1..Len(contexts) : contexts[i].amount = request.amount

---------------------------------------------------------------------------
\* C13: missing data never makes process throw and counts as neutral: no
\* entry for the damage type in the affinity table gives tier none; a missing
\* source actor, a missing bonus table or a bonus table without the outgoing
\* or incoming sub-table contributes nothing, a sub-table without an entry for
\* the damage type contributes 0 for it, and the result is a number.
C13_MissingDataIsNeutral ==
    /\ error # "TypeError"
    /\ \A i \in 1..Len(contexts) :
        LET c == contexts[i]
            source == c.sourceActor
            target == actors[c.actor]
        IN /\ (/\ Done(i, "affinity")
               /\ target.affinities = NoEntry
               /\ request.overrides.affinity = Undef)
              => c.affinity = affValue.none
           /\ Done(i, "bonuses") =>
                /\ (~source.present \/ ~source.bonuses.present \/ ~source.bonuses.sub)
                   => /\ ~MapHas(c.bonuses, "outgoingDamage.all")
                      /\ ~MapHas(c.bonuses, "outgoingDamage.damageType")
                /\ (~target.bonuses.present \/ ~target.bonuses.sub)
                   => /\ ~MapHas(c.bonuses, "incomingDamage.all")
                      /\ ~MapHas(c.bonuses, "incomingDamage.damageType")
                /\ (MapHas(c.bonuses, "outgoingDamage.damageType")
                    /\ source.bonuses.typed = Undef)
                   => MapGet(c.bonuses, "outgoingDamage.damageType") = Num(0)
                /\ (MapHas(c.bonuses, "incomingDamage.damageType")
                    /\ target.bonuses.typed = Undef)
                   => MapGet(c.bonuses, "incomingDamage.damageType") = Num(0)
           /\ (Done(i, "fold") /\ listeners = {} /\ IsNum(c.amount)) => IsNum(c.result)

---------------------------------------------------------------------------
\* the contexts built so far by the two invocations
AllContexts == contexts \o (IF other = NoInvocation THEN <<>> ELSE other.contexts)

\* C14: with no hook listeners, two finished contexts for the same actor,
\* built at any position of any of the two value-identical requests (one of
\* them single-target), hold the same tier, bonuses, modifiers and result:
\* 10 for the resistant a1 with its scale flag 2, -12 for the absorbing a2
\* with its incoming bonuses of 1 and 1 (amount 8, source bonus 2).
C14_ResultDependsOnTargetOnly ==
    listeners = {} =>
        \A i, j \in 1..Len(AllContexts) :
            LET c == AllContexts[i]
                d == AllContexts[j]
            IN (c.folded # Undef /\ d.folded # Undef /\ c.actor = d.actor) =>
                   /\ c.affinity = d.affinity
                   /\ c.bonuses = d.bonuses
                   /\ c.modifiers = d.modifiers
                   /\ c.result = d.result
                   /\ c.result = IF c.actor = "a1" THEN Num(10) ELSE Num(-12)

\* a1 was the second target of one request and the only target of the other
C14_Witness ==
    /\ other # NoInvocation
    /\ request.targets.list = <<"a2", "a1">>
    /\ other.request.targets.list = <<"a1">>
    /\ Len(contexts) = 2 /\ contexts[2].result = Num(10)
    /\ Len(contexts[2].bonuses) = 2
    /\ Len(other.contexts) = 1 /\ other.contexts[1].result = Num(10)
    /\ pc = "resolved" /\ other.pc = "resolved"

---------------------------------------------------------------------------
\* the sum of the fulfilled pool values for actor a among the first n
\* operations of ups
RECURSIVE Applied(_, _, _)
Applied(ups, a, n) ==
    IF n = 0 THEN Num(0)
    ELSE IF ups[n].kind = "pool" /\ ups[n].actor = a /\ ups[n].status = "fulfilled"
         THEN Add(Applied(ups, a, n - 1), ups[n].value)
         ELSE Applied(ups, a, n - 1)

\* the number of entries of the list l that are a
Occurrences(l, a) == Cardinality({i \in 1..Len(l) : l[i] = a})

\* the result of a target in a request processed alone (see C14)
AloneResult(a) == IF a = "a1" THEN Num(10) ELSE Num(-12)

---------------------------------------------------------------------------
\* process has been called and has not settled
InFlight(p) == p \notin {"none", "resolved", "rejected"}

\* C16: the damage applications started from the controls of one message
\* never overlap: at most one invocation of process is in flight, and while
\* one is, or a handler is between its accepted click and its end, the flag
\* is set so that a further click starts nothing.
C16_OneApplicationInFlight ==
    /\ ~(InFlight(pc) /\ other # NoInvocation /\ InFlight(other.pc))
    /\ (JsIdle /\ InFlight(pc)) => disabled
    /\ handler.pc \in {"awaitTargets", "dialog", "applying"} => disabled

---------------------------------------------------------------------------
\* C20: the flag is set only while a handler is at work: once no target
\* resolution is awaited, no dialog is open and no application is being
\* started, the flag is clear again, whatever the outcome was.
C20_GuardReleased ==
    handler.pc \notin {"awaitTargets", "dialog", "applying"} => ~disabled

---------------------------------------------------------------------------
\* every operation issued so far has fulfilled
AllDone == \A j \in 1..Len(updates) : updates[j].status = "fulfilled"

\* C17 as claimed: a valid request always gets its 2n operations, and process
\* resolves whenever every operation it issued has completed (the TypeError
\* of C13 left aside).
C17_EveryTargetGetsOperations ==
    (/\ validate(request)
     /\ pc \in {"resolved", "rejected"}
     /\ error # "TypeError"
     /\ AllDone) =>
        /\ pc = "resolved"
        /\ Len(updates) = 2 * Len(request.targets.list)

\* C17: the operations issued are, at every moment, a prefix of pool(1),
\* record(1), pool(2), record(2), ... over the entries of request.targets and
\* their actors, whatever the extra descriptor's own target list; no stage of
\* a target runs before both operations of the target before it were issued;
\* the request-level hook is the first event and fires once; the loop ends
\* with 2n operations; process resolves only with all 2n fulfilled, and once
\* the loop has ended and all have fulfilled, it can resolve.
C17_OperationsInListOrder ==
    LET n == Len(request.targets.list)
    IN /\ Len(updates) <= 2 * n
       /\ \A j \in 1..Len(updates) :
             LET t == (j + 1) \div 2
             IN /\ updates[j].target = t
                /\ updates[j].actor = request.targets.list[t]
                /\ updates[j].kind = IF j % 2 = 1 THEN "pool" ELSE "record"
       /\ \A i \in 2..Len(contexts) : Len(updates) >= 2 * (i - 1)
       /\ \A j \in 1..Len(log) : (log[j].ev = "DAMAGE_APPLY_BEFORE") <=> (j = 1)
       /\ pc \in {"gather", "resolved"} => Len(updates) = 2 * n
       /\ pc = "resolved" => AllDone
       /\ (pc = "gather" /\ AllDone) => ENABLED AllFulfilled

\* two targets, an extra descriptor with its own list, all four operations
\* fulfilled and process resolved
C17_Witness ==
    /\ pc = "resolved"
    /\ request.targets.list = <<"a1", "a1">>
    /\ request.extraTargets = List(<<"a2">>)
    /\ Len(updates) = 4
    /\ AllDone

---------------------------------------------------------------------------
\* C18: a scale-incoming-damage flag with a numeric value, 0 included, is the
\* first modifier, 'scaleIncomingDamage', right before 'affinity', and the
\* folded result carries it as a factor (a flag of 0 gives 0); without the
\* flag the built-in modifiers are 'affinity' alone.
C18_ScaleFlagRecorded ==
    \A i \in 1..Len(contexts) :
        LET c == contexts[i]
            m == c.modifiers
            flag == actors[c.actor].scaleIncomingDamage
        IN Done(i, "modifiers") =>
            /\ IsNum(flag) =>
                  /\ Len(m) >= 2
                  /\ m[1] = [key |-> "scaleIncomingDamage", value |-> flag]
                  /\ m[2].key = "affinity"
                  /\ (Done(i, "fold") /\ IsNum(c.amount) /\ flag = Num(0)) =>
                         c.folded = Num(0)
            /\ flag = Undef =>
                  /\ ~MapHas(m, "scaleIncomingDamage")
                  /\ m[1].key = "affinity"

---------------------------------------------------------------------------
\* C19: whatever the listeners of the two legacy hooks write into the hook
\* data objects they receive, the context result is what it was when the
\* per-target hook was called, and the delta of the pool operation is its
\* negation.
C19_LegacyHooksChangeNothing ==
    \A h \in 1..Len(hookData) :
        hookData[h].ev = "DAMAGE_APPLY_TARGET" =>
            /\ contexts[hookData[h].target].result = hookData[h].given
            /\ \A j \in 1..Len(updates) :
                  (updates[j].kind = "pool" /\ updates[j].target = hookData[h].target) =>
                      /\ IsNegationOf(updates[j].value, hookData[h].given)
                      /\ updates[j].status = "fulfilled" =>
                            hp[updates[j].actor] =
                                Add(InitialHp, AppliedTo(updates[j].actor, Len(updates)))

\* listeners of both hooks wrote 99 into their objects; the result was 10 and
\* the pool went from 20 to 10
C19_Witness ==
    /\ Len(hookData) = 2
    /\ hookData[1].ev = "DAMAGE_APPLY_BEFORE" /\ hookData[1].total = Num(99)
    /\ hookData[1].given = Num(8)
    /\ hookData[2].ev = "DAMAGE_APPLY_TARGET" /\ hookData[2].total = Num(99)
    /\ hookData[2].given = Num(10)
    /\ Len(updates) = 2
    /\ updates[1].value = Num(-10)
    /\ updates[1].status = "fulfilled"
    /\ hp["a1"] = Num(10)

====
